---- MODULE Spec2Model ----
(***************************************************************************)
(* A model of compress.py: the bounded polling supervisor (execute_dppp),  *)
(* the exit-code check, the split / flag / compress pipeline of main(),    *)
(* the nearest-channel lookup and the guard-channel flag repair.           *)
(*                                                                         *)
(* Frequencies are integers in MHz (the source writes them in Hz as        *)
(* floats); arrays are sequences, indexed from 1 where numpy indexes       *)
(* from 0, so channel number c of the source is position c + 1 here.       *)
(***************************************************************************)
EXTENDS Integers, Sequences, FiniteSets, TLC

(***************************************************************************)
(* Program constants.                                                      *)
(***************************************************************************)
_POOL_TIME == 10

_MAX_COMPRESS_TIME == 24 * 3600

_MAX_POOL == _MAX_COMPRESS_TIME \div _POOL_TIME

UpperChan0 == 12288

(***************************************************************************)
(* Bounds of the model.                                                    *)
(***************************************************************************)
MaxChans == 2

\* Longest array handed to replace_bad_col on its own.
MaxLen == 3

FlagRows == 1

\* Channel frequencies a table is built from (MHz): the four window bounds.
FreqValues == {1180, 1200, 1400, 1425}

\* Exit codes the external process may end with: success, a failure, and a
\* negative code (Popen reports death by signal N as -N).
ExitCodes == {-9, 0, 2}

SeqsUpTo(S, n) == UNION {[1..k -> S] : k \in 1..n}

ChannelTables == SeqsUpTo(FreqValues, MaxChans)

\* Channel counts of the reference FLAG column: below, at and above one
\* 64-channel block.
FlagChanCounts == {2, 64, 66}

\* Channel counts of the upper-band dataset the split writes.
UpperChanCounts == {64, 66}

\* Offsets inside each block at which a reference dataset carries flags:
\* none, or a guard channel (1) and a neighbour of the other one (62).
FlagOffsetSets == {{}, {1, 62}}

VARIABLES
    decompress_mode,  \* args.decompress
    flags_given,      \* args.flags is non-empty
    msfreqs,          \* CHAN_FREQ of the input, from the first query to the last
    pc,               \* position of main()
    dppp_process,     \* the Popen object of the running execute_dppp call
    polls,            \* iterations of the polling loop begun so far
    return_code,      \* value execute_dppp handed to its caller
    launched,         \* kinds of the external processes launched, in order
    alive,            \* indices into launched of processes still running
    disk,             \* FLAG and FLAG_ROW of the datasets the flag steps touch
    handles,          \* table handles currently open
    flag_col,         \* apply_flags' in-memory copy of the reference FLAG
    same_flags,       \* results of test_same_flags, in order
    raised,           \* exception that ended the run, "none" otherwise
    exit_status,      \* exit status of the run, once pc is done or aborted
    all_succeeded,    \* history: every process waited for so far exited with 0
    rb_bad,           \* replace_bad_col called on its own: argument bad
    rb_good,          \* ... argument good
    rb_out,           \* ... the call's outcome, once made
    fq_table,         \* get_freq_chans called on its own: CHAN_FREQ of msin
    fq_freqs,         \* ... argument freqs
    fq_out            \* ... the value returned, once the call is made

cli == <<decompress_mode, flags_given>>

supervisor == <<dppp_process, polls, return_code>>

system == <<launched, alive>>

data == <<disk, handles, flag_col, same_flags>>

reconcile == <<rb_bad, rb_good, rb_out>>

resolver == <<fq_table, fq_freqs, fq_out>>

pipeline == <<msfreqs, pc, supervisor, system, data, raised, exit_status,
              all_succeeded>>

vars == <<cli, reconcile, resolver, pipeline>>

(***************************************************************************)
(* find_nearest / get_freq_chans                                           *)
(***************************************************************************)
Abs(x) == IF x < 0 THEN -x ELSE x

\* argmin over positions k..Len(diffs), given the best position so far: a
\* later position wins only with a strictly smaller value.
RECURSIVE ArgMinFrom_LastWins(_, _, _)
ArgMinFrom_LastWins(diffs, k, best) ==
    IF k > Len(diffs) THEN best
    ELSE ArgMinFrom_LastWins(diffs, k + 1,
                             IF diffs[k] <= diffs[best] THEN k ELSE best)

RECURSIVE ArgMinFrom(_, _, _)
ArgMinFrom(diffs, k, best) ==
    IF k > Len(diffs) THEN best
    ELSE ArgMinFrom(diffs, k + 1, IF diffs[k] < diffs[best] THEN k ELSE best)

\* np.abs(array - value).argmin(), as a 0-based channel number.
find_nearest(array, value) ==
    LET diffs == [k \in 1..Len(array) |-> Abs(array[k] - value)]
    IN  ArgMinFrom(diffs, 2, 1) - 1

\* What get_freq_chans hands back: a list of channel numbers or a bare one.
ChanList(chans) == [tag |-> "list", val |-> chans]

Chan(i) == [tag |-> "int", val |-> i]

\* Lines 39-45: the channel numbers in the order of freqs; a list of one
\* is unwrapped.
get_freq_chans(table, freqs) ==
    LET chans == [k \in 1..Len(freqs) |-> find_nearest(table, freqs[k])]
    IN  IF Len(chans) = 1 THEN Chan(chans[1]) ELSE ChanList(chans)

Window1180 == <<1180, 1200>>

Window1400 == <<1400, 1425>>

(***************************************************************************)
(* The external process, as subprocess.Popen presents it.                  *)
(***************************************************************************)
NoProcess ==
    [kind |-> "none", startchan |-> 0, nchan |-> 0, status |-> "none",
     returncode |-> 0, waits |-> 0, exitWait |-> 0]

\* Process(command): a freshly started process.
Popen(kind, startchan, nchan) ==
    [kind |-> kind, startchan |-> startchan, nchan |-> nchan,
     status |-> "running", returncode |-> 0, waits |-> 0, exitWait |-> 0]

\* wait(_POOL_TIME) during which the process ends with code c.
WaitExited(p, c) ==
    [p EXCEPT !.status = "exited", !.returncode = c,
              !.waits = @ + 1, !.exitWait = p.waits + 1]

\* wait(_POOL_TIME) that raises TimeoutExpired.
WaitTimeout(p) == [p EXCEPT !.waits = @ + 1]

\* What execute_dppp hands back: an exit code, or None when the loop runs out.
Code(c) == [tag |-> "code", val |-> c]

None_Zero == Code(0)

None == [tag |-> "None", val |-> 0]

\* The caller's return_code before execute_dppp has returned.
Unset == [tag |-> "unset", val |-> 0]


(***************************************************************************)
(* numpy slices of the FLAG column.  A column is a sequence of rows, a row  *)
(* a sequence of per-channel flags; the polarisation axis, which every      *)
(* slice of the source takes whole, is left out.  len() of an array is the  *)
(* extent of its first axis.                                                *)
(***************************************************************************)
BlockSize == 64

\* Number of channels start, start + 64, ... below nchan.
SliceCount(nchan, start) ==
    IF nchan <= start THEN 0 ELSE ((nchan - start - 1) \div BlockSize) + 1

NChan(col) == IF Len(col) = 0 THEN 0 ELSE Len(col[1])

\* col[:, start::64, :]
ColSlice(col, start) ==
    [r \in 1..Len(col) |->
        [k \in 1..SliceCount(Len(col[r]), start) |->
            col[r][start + BlockSize * (k - 1) + 1]]]

\* Whether an array of extents (rows, chans) broadcasts into a slice of
\* extents (tRows, tChans): each extent is equal or 1.
Broadcasts(rows, chans, tRows, tChans) ==
    /\ rows = tRows \/ rows = 1
    /\ chans = tChans \/ chans = 1

\* col[:, start::64, :] = value, for a value that broadcasts.
AssignSlice(col, start, value) ==
    [r \in 1..Len(col) |->
        [c \in 1..Len(col[r]) |->
            IF c - 1 >= start /\ (c - 1 - start) % BlockSize = 0
            THEN LET k == ((c - 1 - start) \div BlockSize) + 1
                     vr == IF Len(value) = 1 THEN 1 ELSE r
                     vk == IF Len(value[vr]) = 1 THEN 1 ELSE k
                 IN  value[vr][vk]
            ELSE col[r][c]]]

(***************************************************************************)
(* apply_flags.replace_bad_col                                             *)
(***************************************************************************)
Returned(value, bad, good) ==
    [raised |-> "none", value |-> value, bad |-> bad, good |-> good]

Raised(exc, bad, good) ==
    [raised |-> exc, value |-> <<>>, bad |-> bad, good |-> good]

\* good[:-1]
DropLast(a) == IF Len(a) = 0 THEN a ELSE SubSeq(a, 1, Len(a) - 1)

EqualExtent_KeepsBad(bad, good) == Returned(bad, bad, good)

\* Line 80: bad = good
EqualExtent(bad, good) == Returned(good, bad, good)

\* Line 82: bad = good[:-1]
SurplusOne(bad, good) == Returned(DropLast(good), bad, good)

\* Lines 84-85: bad[:-1] = good writes through to bad when good broadcasts
\* into len(bad) - 1 entries; bad[-1] = good[-1] needs bad non-empty.
DeficitOne(bad, good) ==
    LET target == Len(DropLast(bad))
        filled == [k \in 1..Len(bad) |->
                     IF k <= target
                     THEN (IF Len(good) = 1 THEN good[1] ELSE good[k])
                     ELSE bad[k]]
    IN  IF ~(Len(good) = target \/ Len(good) = 1)
        THEN Raised("ValueError", bad, good)
        ELSE IF Len(bad) = 0
        THEN Raised("IndexError", filled, good)
        ELSE LET out == [filled EXCEPT ![Len(bad)] = good[Len(good)]]
             IN  Returned(out, out, good)

\* The call's outcome: the value returned or the exception raised, and the
\* two argument arrays as the call leaves them.
replace_bad_col(bad, good) ==
    IF Len(bad) = Len(good) THEN EqualExtent(bad, good)
    ELSE IF Len(bad) = Len(good) + 1 THEN SurplusOne(bad, good)
    ELSE IF Len(bad) = Len(good) - 1 THEN DeficitOne(bad, good)
    ELSE Raised("RuntimeError", bad, good)

(***************************************************************************)
(* Datasets on disk, as far as the flag steps read and write them.         *)
(***************************************************************************)
Absent == [exists |-> FALSE, FLAG |-> <<>>, FLAG_ROW |-> <<>>]

\* A dataset of FlagRows rows and nchan channels, flagged at the channels
\* whose offset in their block is in offsets.
FlagDataset(nchan, offsets) ==
    [exists |-> TRUE,
     FLAG |-> [r \in 1..FlagRows |->
                 [c \in 1..nchan |-> ((c - 1) % BlockSize) \in offsets]],
     FLAG_ROW |-> [r \in 1..FlagRows |-> FALSE]]

\* np.array_equal
array_equal(a, b) == a = b

\* One of lines 95 and 96: flag_col[:, b::64, :] =
\* replace_bad_col(flag_col[:, b::64, :], flag_col[:, g::64, :]).
RepairGroup(col, badStart, goodStart) ==
    LET bad == ColSlice(col, badStart)
        res == replace_bad_col(bad, ColSlice(col, goodStart))
    IN  IF res.raised # "none"
        THEN [raised |-> res.raised, col |-> col]
        ELSE IF ~Broadcasts(Len(res.value), NChan(res.value), Len(bad), NChan(bad))
        THEN [raised |-> "ValueError", col |-> col]
        ELSE [raised |-> "none", col |-> AssignSlice(col, badStart, res.value)]

\* Lines 95-96 in sequence.
RepairFlags(col) ==
    LET first == RepairGroup(col, 1, 2)
    IN  IF first.raised # "none" THEN first
        ELSE RepairGroup(first.col, BlockSize - 1, BlockSize - 2)

(***************************************************************************)
(* Initial state: the command line.                                        *)
(***************************************************************************)
NotCalled == [raised |-> "pending", value |-> <<>>, bad |-> <<>>, good |-> <<>>]

NotResolved == [tag |-> "pending", val |-> <<>>]

\* get_freq_chans is not exercised on its own.
NoLookup ==
    /\ fq_table = <<>>
    /\ fq_freqs = <<>>
    /\ fq_out = NotResolved

Idle ==
    /\ msfreqs = <<>>
    /\ pc = "main"
    /\ dppp_process = NoProcess
    /\ polls = 0
    /\ return_code = Unset
    /\ launched = <<>>
    /\ alive = {}
    /\ disk = [upper |-> Absent, flags |-> Absent, flagged |-> Absent]
    /\ handles = {}
    /\ flag_col = <<>>
    /\ same_flags = <<>>
    /\ raised = "none"
    /\ exit_status = 0
    /\ all_succeeded = TRUE

Init ==
    /\ decompress_mode \in BOOLEAN
    /\ flags_given \in BOOLEAN
    /\ rb_bad = <<>>
    /\ rb_good = <<>>
    /\ rb_out = NotCalled
    /\ NoLookup
    /\ Idle

(***************************************************************************)
(* execute_dppp                                                            *)
(***************************************************************************)
\* Lines 113-115: build the command and start the process.
Launch(kind, startchan, nchan) ==
    /\ dppp_process' = Popen(kind, startchan, nchan)
    /\ launched' = Append(launched, kind)
    /\ alive' = alive \cup {Len(launched) + 1}
    /\ polls' = 0
    /\ pc' = "execute_dppp"
    /\ UNCHANGED <<cli, reconcile, resolver, return_code, data, raised, exit_status,
                   all_succeeded>>

LoopContinues_OneMore(n) == n <= _MAX_POOL

\* for i in range(_MAX_POOL): another iteration is begun.
LoopContinues(n) == n < _MAX_POOL

ReturnValue_Zero(p) == Code(0)

\* The value returned when wait() hands back the process's exit code.
ReturnValue(p) == Code(p.returncode)

\* One iteration in which wait() returns the exit code: return it at once.
PollExited ==
    /\ pc = "execute_dppp"
    /\ LoopContinues(polls)
    /\ \E c \in ExitCodes : dppp_process' = WaitExited(dppp_process, c)
    /\ all_succeeded' = (all_succeeded /\ dppp_process'.returncode = 0)
    /\ return_code' = ReturnValue(dppp_process')
    /\ polls' = polls + 1
    /\ alive' = alive \ {Len(launched)}
    /\ pc' = "check_return_code"
    /\ UNCHANGED <<cli, reconcile, resolver, msfreqs, launched, data, raised, exit_status>>

\* One iteration in which wait() times out: continue; when the range is
\* used up the function falls off its end and returns None.
PollTimeout ==
    /\ pc = "execute_dppp"
    /\ LoopContinues(polls)
    /\ dppp_process' = WaitTimeout(dppp_process)
    /\ polls' = polls + 1
    /\ IF LoopContinues(polls + 1)
       THEN /\ pc' = "execute_dppp"
            /\ UNCHANGED <<return_code, all_succeeded>>
       ELSE /\ pc' = "check_return_code"
            /\ return_code' = None
            /\ all_succeeded' = FALSE
    /\ UNCHANGED <<cli, reconcile, resolver, msfreqs, system, data, raised, exit_status>>

(***************************************************************************)
(* check_return_code and the tail of split_ms / compress / decompress      *)
(***************************************************************************)
AfterStep_FallThrough(kind) ==
    CASE kind = "split_1180" -> "window_1400"
      [] kind = "split_1400" -> "upper"
      [] kind = "split_upper" -> "flags_check"
      [] kind = "compress" -> "done"
      [] kind = "decompress" -> "upper"

\* Where main() goes on after the step that ran `kind` returned.
AfterStep(kind) ==
    CASE kind = "split_1180" -> "window_1400"
      [] kind = "split_1400" -> "upper"
      [] kind = "split_upper" -> "flags_check"
      [] kind = "compress" -> "done"
      [] kind = "decompress" -> "done"

ComparisonRaises_Never(rc) == FALSE

\* return_code > 0 with None on the left raises TypeError in Python 3.
ComparisonRaises(rc) == rc.tag = "None"

\* return_code > 0
IsFailure(rc) == rc.val > 0

SystemExitStatus_One(rc) == 1

\* Line 130: raise SystemExit(return_code)
SystemExitStatus(rc) == rc.val

\* The run ends with an exception: the interpreter unwinds and exits.
Abort(exc, status) ==
    /\ pc' = "aborted"
    /\ raised' = exc
    /\ exit_status' = status
    /\ dppp_process' = NoProcess
    /\ polls' = 0
    /\ handles' = {}
    /\ flag_col' = <<>>

CheckReturnCode ==
    /\ pc = "check_return_code"
    /\ IF ComparisonRaises(return_code)
       THEN /\ Abort("TypeError", 1)
            /\ UNCHANGED return_code
       ELSE IF IsFailure(return_code)
       THEN /\ Abort("SystemExit", SystemExitStatus(return_code))
            /\ UNCHANGED return_code
       ELSE /\ pc' = AfterStep(dppp_process.kind)
            /\ return_code' = Unset
            /\ dppp_process' = NoProcess
            /\ polls' = 0
            /\ UNCHANGED <<raised, exit_status, handles, flag_col>>
    /\ UNCHANGED <<cli, reconcile, resolver, msfreqs, system, disk, same_flags, all_succeeded>>

(***************************************************************************)
(* Table handles.  A handle is open from the CasacoreTable(...) call until  *)
(* the with block that owns it is left, or, for a table no with block      *)
(* owns, until the last reference to it is dropped: at the end of the      *)
(* statement for a temporary, at the return for a local.                   *)
(***************************************************************************)
\* CasacoreTable(path, readonly=...), made by the step `step`.
CasacoreTable(path, readonly, step) ==
    [path |-> path, readonly |-> readonly, step |-> step]

DropReferences_Lingers(hs, step) == hs

\* The tables made by `step` that nothing refers to any more are closed.
DropReferences(hs, step) == {h \in hs : h.step # step}

\* Leaving `with CasacoreTable(path, ...) as table:` closes that table.
WithExit(hs, path, step) == {h \in hs : ~(h.path = path /\ h.step = step)}

(***************************************************************************)
(* test_same_flags and apply_flags                                         *)
(***************************************************************************)
\* Line 228, into line 104: test_same_flags opens the upper-band dataset
\* the split wrote and the reference dataset.  They are first read here,
\* and enter the state here.
MainTestFlags1 ==
    /\ pc = "test_same_flags_1"
    /\ \E un \in UpperChanCounts, rn \in FlagChanCounts, offsets \in FlagOffsetSets :
        disk' = [disk EXCEPT !.upper = FlagDataset(un, {}),
                             !.flags = FlagDataset(rn, offsets)]
    /\ handles' = handles \cup {CasacoreTable("upper", TRUE, "test_same_flags_1"),
                              CasacoreTable("flags", TRUE, "test_same_flags_1")}
    /\ pc' = "compare_1"
    /\ UNCHANGED <<cli, reconcile, resolver, msfreqs, supervisor, system, flag_col,
                   same_flags, raised, exit_status, all_succeeded>>

\* Lines 104-109 of the call at line 228: compare the two FLAG columns;
\* the two tables were temporaries of that statement.
CompareFlags1 ==
    /\ pc = "compare_1"
    /\ same_flags' = Append(same_flags, array_equal(disk.upper.FLAG, disk.flags.FLAG))
    /\ handles' = DropReferences(handles, "test_same_flags_1")
    /\ pc' = "apply_flags"
    /\ UNCHANGED <<cli, reconcile, resolver, msfreqs, supervisor, system, disk,
                   flag_col, raised, exit_status, all_succeeded>>

\* Lines 70-93: copy the upper-band dataset to the output path, open it
\* read-write, open the reference and read its FLAG column.
ApplyFlagsOpen ==
    /\ pc = "apply_flags"
    /\ disk' = [disk EXCEPT !.flagged = disk.upper]
    /\ handles' = handles \cup {CasacoreTable("flagged", FALSE, "apply_flags"),
                              CasacoreTable("flags", TRUE, "apply_flags")}
    /\ flag_col' = disk.flags.FLAG
    /\ pc' = "apply_flags_repair"
    /\ UNCHANGED <<cli, reconcile, resolver, msfreqs, supervisor, system, same_flags, raised,
                   exit_status, all_succeeded>>

\* Lines 95-96: repair the two guard-channel groups in memory.
ApplyFlagsRepair ==
    /\ pc = "apply_flags_repair"
    /\ LET res == RepairFlags(flag_col)
       IN  IF res.raised # "none"
           THEN /\ Abort(res.raised, 1)
           ELSE /\ flag_col' = res.col
                /\ pc' = "apply_flags_write"
                /\ UNCHANGED <<dppp_process, polls, handles, raised, exit_status>>
    /\ UNCHANGED <<cli, reconcile, resolver, msfreqs, return_code, system, disk, same_flags,
                   all_succeeded>>

\* putcol of an array whose shape is not the column's: the table store
\* either refuses it or takes it.
PutcolOutcomes(column, array) ==
    IF Len(column) = Len(array) /\ NChan(column) = NChan(array)
    THEN {"written"}
    ELSE {"written", "refused"}

\* Lines 98-100: write FLAG and FLAG_ROW back, close the handle, return.
ApplyFlagsWrite ==
    /\ pc = "apply_flags_write"
    /\ \E outcome \in PutcolOutcomes(disk.flagged.FLAG, flag_col) :
        IF outcome = "refused"
        THEN /\ Abort("RuntimeError", 1)
             /\ UNCHANGED disk
        ELSE /\ disk' = [disk EXCEPT !.flagged.FLAG = flag_col,
                                      !.flagged.FLAG_ROW = disk.flags.FLAG_ROW]
             /\ handles' = DropReferences(WithExit(handles, "flagged", "apply_flags"),
                                          "apply_flags")
             /\ flag_col' = <<>>
             /\ pc' = "test_same_flags_2"
             /\ UNCHANGED <<dppp_process, polls, raised, exit_status>>
    /\ UNCHANGED <<cli, reconcile, resolver, msfreqs, return_code, system, same_flags,
                   all_succeeded>>

\* Line 232, into line 104: test_same_flags opens the flagged dataset and
\* the reference dataset.
MainTestFlags2 ==
    /\ pc = "test_same_flags_2"
    /\ handles' = handles \cup {CasacoreTable("flagged", TRUE, "test_same_flags_2"),
                              CasacoreTable("flags", TRUE, "test_same_flags_2")}
    /\ pc' = "compare_2"
    /\ UNCHANGED <<cli, reconcile, resolver, msfreqs, supervisor, system, disk,
                   flag_col, same_flags, raised, exit_status, all_succeeded>>

\* Lines 104-109 of the call at line 232.
CompareFlags2 ==
    /\ pc = "compare_2"
    /\ same_flags' = Append(same_flags, array_equal(disk.flagged.FLAG, disk.flags.FLAG))
    /\ handles' = DropReferences(handles, "test_same_flags_2")
    /\ pc' = "compress"
    /\ UNCHANGED <<cli, reconcile, resolver, msfreqs, supervisor, system, disk,
                   flag_col, raised, exit_status, all_succeeded>>

(***************************************************************************)
(* main                                                                    *)
(***************************************************************************)
\* chan0 and nchans of a frequency window (lines 203-205 and 213-215).
WindowChans(table, window) ==
    LET chans == get_freq_chans(table, window).val
    IN  [chan0 |-> chans[1], nchans |-> chans[2] - chans[1]]

SkipWindow_StartOnly(w) == w.chan0 = 0

\* Line 206: the split of the 1180-1200 MHz window is left out.
SkipWindow(w) == w.chan0 = 0 /\ w.nchans = 0

\* Line 198: decompress mode.
MainDecompress ==
    /\ pc = "main"
    /\ decompress_mode
    /\ Launch("decompress", 0, 0)
    /\ UNCHANGED msfreqs

\* Lines 202-210: the 1180-1200 MHz window.  The input's channel
\* frequencies are first queried here, and enter the state here.
MainWindow1180 ==
    /\ pc = "main"
    /\ ~decompress_mode
    /\ \E table \in ChannelTables :
        /\ msfreqs' = table
        /\ LET w == WindowChans(table, Window1180)
           IN  IF SkipWindow(w)
               THEN /\ pc' = "window_1400"
                    /\ UNCHANGED <<cli, reconcile, resolver, supervisor, system, data, raised,
                                   exit_status, all_succeeded>>
               ELSE Launch("split_1180", w.chan0, w.nchans)

\* Lines 212-216: the 1400-1425 MHz window.  The second and last query of
\* the channel frequencies.
MainWindow1400 ==
    /\ pc = "window_1400"
    /\ LET w == WindowChans(msfreqs, Window1400)
       IN  Launch("split_1400", w.chan0, w.nchans)
    /\ msfreqs' = <<>>

\* Lines 222-223: the upper half-band.
MainUpper ==
    /\ pc = "upper"
    /\ Launch("split_upper", UpperChan0, 0)
    /\ UNCHANGED msfreqs

ReturnsEarly_Never(flags) == FALSE

\* Line 225: if not args.flags
ReturnsEarly(flags) == ~flags

\* Lines 225-227: without a reference flag dataset the run ends here.
MainFlagsCheck ==
    /\ pc = "flags_check"
    /\ pc' = IF ReturnsEarly(flags_given) THEN "done" ELSE "test_same_flags_1"
    /\ UNCHANGED <<cli, reconcile, resolver, msfreqs, supervisor, system, data, raised,
                   exit_status, all_succeeded>>

\* Line 233: compress the flagged dataset.
MainCompress ==
    /\ pc = "compress"
    /\ Launch("compress", 0, 0)
    /\ UNCHANGED msfreqs

(***************************************************************************)
(* The environment                                                         *)
(***************************************************************************)
\* A process the run no longer waits for ends on its own.
OrphanExits ==
    /\ pc \in {"aborted", "done"}
    /\ \E k \in alive : alive' = alive \ {k}
    /\ UNCHANGED <<cli, reconcile, resolver, msfreqs, pc, supervisor, launched, data, raised,
                   exit_status, all_succeeded>>

Next ==
    \/ MainDecompress
    \/ MainWindow1180
    \/ MainWindow1400
    \/ MainUpper
    \/ MainFlagsCheck
    \/ MainTestFlags1
    \/ CompareFlags1
    \/ ApplyFlagsOpen
    \/ ApplyFlagsRepair
    \/ ApplyFlagsWrite
    \/ MainTestFlags2
    \/ CompareFlags2
    \/ MainCompress
    \/ PollExited
    \/ PollTimeout
    \/ CheckReturnCode
    \/ OrphanExits

Spec == Init /\ [][Next]_vars

(***************************************************************************)
(* replace_bad_col on its own: every pair of arrays of booleans of up to   *)
(* MaxLen entries along the axis len() measures.                           *)
(***************************************************************************)
Arrays == UNION {[1..k -> BOOLEAN] : k \in 0..MaxLen}

InitReconcile ==
    /\ decompress_mode = FALSE
    /\ flags_given = TRUE
    /\ rb_bad \in Arrays
    /\ rb_good \in Arrays
    /\ rb_out = NotCalled
    /\ NoLookup
    /\ Idle

CallReplaceBadCol ==
    /\ rb_out = NotCalled
    /\ rb_out' = replace_bad_col(rb_bad, rb_good)
    /\ UNCHANGED <<cli, rb_bad, rb_good, resolver, pipeline>>

NextReconcile == CallReplaceBadCol

SpecReconcile == InitReconcile /\ [][NextReconcile]_vars

(***************************************************************************)
(* replace_bad_col on guard groups as apply_flags slices them: both        *)
(* arguments have the rows of one FLAG column, and up to MaxLen channels   *)
(* each.                                                                   *)
(***************************************************************************)
Groups == UNION {[1..FlagRows -> [1..k -> BOOLEAN]] : k \in 0..MaxLen}

InitGroups ==
    /\ decompress_mode = FALSE
    /\ flags_given = TRUE
    /\ rb_bad \in Groups
    /\ rb_good \in Groups
    /\ rb_out = NotCalled
    /\ NoLookup
    /\ Idle

SpecGroups == InitGroups /\ [][NextReconcile]_vars

(***************************************************************************)
(* get_freq_chans on its own: every table of up to MaxChans channels and   *)
(* every sequence of up to MaxFreqs requested frequencies.                 *)
(***************************************************************************)
MaxFreqs == 2

\* Requested frequencies (MHz): the window bounds, and 1190 and 1300, each
\* as far from one window bound as from another.
RequestValues == FreqValues \cup {1190, 1300}

Requests == UNION {[1..k -> RequestValues] : k \in 0..MaxFreqs}

InitResolve ==
    /\ decompress_mode = FALSE
    /\ flags_given = FALSE
    /\ rb_bad = <<>>
    /\ rb_good = <<>>
    /\ rb_out = NotCalled
    /\ fq_table \in ChannelTables
    /\ fq_freqs \in Requests
    /\ fq_out = NotResolved
    /\ Idle

CallGetFreqChans ==
    /\ fq_out = NotResolved
    /\ fq_out' = get_freq_chans(fq_table, fq_freqs)
    /\ UNCHANGED <<cli, reconcile, fq_table, fq_freqs, pipeline>>

NextResolve == CallGetFreqChans

SpecResolve == InitResolve /\ [][NextResolve]_vars

(***************************************************************************)
(* Properties                                                              *)
(***************************************************************************)
Last(seq) == seq[Len(seq)]

Splits == {"split_1180", "split_1400", "split_upper"}

FlagSteps == {"test_same_flags_1", "compare_1", "apply_flags",
              "apply_flags_repair", "apply_flags_write", "test_same_flags_2",
              "compare_2"}

\* The run has ended by an exception: nothing more is launched or written.
AbortIsFinal ==
    pc = "aborted" =>
        /\ pc' = "aborted"
        /\ launched' = launched
        /\ disk' = disk
        /\ exit_status' = exit_status

\* C1: when the external process of any step ends with a positive exit
\* code c, the very next step of the run is its abort with exit status c:
\* nothing more is launched or written, then or later.
C1_PositiveExitAborts ==
    [][/\ (/\ pc = "check_return_code"
           /\ dppp_process.status = "exited"
           /\ dppp_process.returncode > 0)
          => /\ pc' = "aborted"
             /\ exit_status' = dppp_process.returncode
             /\ launched' = launched
             /\ disk' = disk
       /\ AbortIsFinal]_vars

\* The third split ended with code 2 in a run that was to flag and compress.
C1_Witness ==
    /\ pc = "aborted"
    /\ raised = "SystemExit"
    /\ exit_status = 2
    /\ flags_given
    /\ launched = <<"split_1180", "split_1400", "split_upper">>

\* C2: when wait() finds the process ended, execute_dppp returns that
\* process's exit code from that very poll: the polls made are exactly the
\* polls up to the one the process ended in, between 1 and _MAX_POOL.
C2_ReturnsAtTerminatingPoll ==
    dppp_process.status = "exited" =>
        /\ pc = "check_return_code"
        /\ return_code = Code(dppp_process.returncode)
        /\ dppp_process.exitWait >= 1
        /\ polls = dppp_process.exitWait
        /\ dppp_process.waits = dppp_process.exitWait
        /\ polls <= _MAX_POOL

\* The process ends during the last poll the budget allows, with code 2.
C2_Witness ==
    /\ pc = "check_return_code"
    /\ dppp_process.status = "exited"
    /\ dppp_process.exitWait = _MAX_POOL
    /\ return_code = Code(2)

\* C3: the poll counter never exceeds _MAX_POOL, and once _MAX_POOL polls
\* have been made execute_dppp is no longer polling, whatever the process
\* does.
C3_PollsBounded ==
    /\ polls <= _MAX_POOL
    /\ dppp_process.waits <= _MAX_POOL
    /\ pc = "execute_dppp" => polls < _MAX_POOL

\* A process that never ended: execute_dppp came back after _MAX_POOL polls.
C3_Witness ==
    /\ pc = "check_return_code"
    /\ dppp_process.status = "running"
    /\ dppp_process.waits = _MAX_POOL
    /\ polls = _MAX_POOL

\* C4: when the polls run out with the process still running, the value
\* handed back is None, which is no exit code, and the caller's next step
\* ends the run with a non-zero status: nothing more is launched or
\* written, and the run never reaches its successful end.
C4_ExhaustionIsNotSuccess ==
    [][/\ (pc = "check_return_code" /\ dppp_process.status = "running")
          => /\ return_code = None
             /\ \A c \in ExitCodes : return_code # Code(c)
             /\ pc' = "aborted"
             /\ exit_status' # 0
             /\ launched' = launched
             /\ disk' = disk
       /\ AbortIsFinal]_vars

\* The upper-band split outlived its poll budget; the run ended in error.
C4_Witness ==
    /\ pc = "aborted"
    /\ raised = "TypeError"
    /\ return_code = None
    /\ Last(launched) = "split_upper"
    /\ exit_status = 1

\* The pipeline stage of a state of main().
Stage ==
    CASE pc = "main" -> 0
      [] pc \in {"window_1400", "upper", "flags_check"} -> 1
      [] pc \in {"execute_dppp", "check_return_code"} ->
            IF dppp_process.kind \in Splits THEN 1 ELSE 3
      [] pc \in FlagSteps -> 2
      [] pc = "compress" -> 3
      [] pc = "done" -> 4
      [] pc = "aborted" -> 5

KindOrder(kind) ==
    CASE kind = "split_1180" -> 1
      [] kind = "split_1400" -> 2
      [] kind = "split_upper" -> 3
      [] kind = "compress" -> 4
      [] kind = "decompress" -> 4

\* No external step is launched twice or out of order.
LaunchedInOrder(seq) ==
    \A i, j \in 1..Len(seq) : i < j => KindOrder(seq[i]) < KindOrder(seq[j])

\* The flagged dataset holds the repaired reference FLAG and the reference
\* FLAG_ROW.
FlagsWrittenBack ==
    /\ disk.flagged.exists
    /\ disk.flagged.FLAG = RepairFlags(disk.flags.FLAG).col
    /\ disk.flagged.FLAG_ROW = disk.flags.FLAG_ROW

\* Stages only advance, steps are launched once and in order, and
\* compression is launched with the repaired columns written back and no
\* handle open.
StepsInOrder ==
    /\ Stage' >= Stage
    /\ LaunchedInOrder(launched')
    /\ (pc = "apply_flags" /\ pc' # pc) =>
          /\ alive = {}
          /\ Len(launched) >= 2
          /\ launched[Len(launched) - 1] = "split_1400"
          /\ Last(launched) = "split_upper"
    /\ (pc = "compress" /\ pc' # pc) =>
          /\ FlagsWrittenBack
          /\ handles = {}

\* C5: in compress mode the stages run in the order SelectSubbands,
\* ApplyFlags, Compress, Done, never back and no step twice; flag
\* application starts only after every split has succeeded (exit code 0);
\* compression is launched only after FLAG and FLAG_ROW were written back
\* and the read-write handle closed.
C5_StrictStepOrder ==
    [][~decompress_mode =>
          /\ StepsInOrder
          /\ (pc = "apply_flags" /\ pc' # pc) => all_succeeded]_vars

\* C6: in compress mode without a reference flag dataset no flag step is
\* ever reached, nothing is written to a flagged dataset and no compression
\* is launched; once the upper-band split has passed its check the run
\* ends, with exit status 0.
C6_NoFlagsNoCompression ==
    [][(~decompress_mode /\ ~flags_given) =>
          /\ pc' \notin FlagSteps \cup {"compress"}
          /\ \A i \in 1..Len(launched') : launched'[i] \in Splits
          /\ disk' = disk
          /\ handles' = {}
          /\ pc = "flags_check" => (pc' = "done" /\ exit_status' = 0)]_vars

\* All three splits ran and the run ended successfully without compressing.
C6_Witness ==
    /\ ~decompress_mode
    /\ ~flags_given
    /\ pc = "done"
    /\ exit_status = 0
    /\ all_succeeded
    /\ launched = <<"split_1180", "split_1400", "split_upper">>

\* C7: in decompress mode the channel frequencies are never queried, no
\* flag step is reached and no dataset is touched by one, and from the
\* first step on the processes launched are exactly one decompression.
C7_DecompressOnly ==
    decompress_mode =>
        /\ msfreqs = <<>>
        /\ pc \notin FlagSteps \cup {"window_1400", "upper", "flags_check", "compress"}
        /\ disk = [upper |-> Absent, flags |-> Absent, flagged |-> Absent]
        /\ same_flags = <<>>
        /\ handles = {}
        /\ launched = IF pc = "main" THEN <<>> ELSE <<"decompress">>

\* A decompress run that ended successfully.
C7_Witness ==
    /\ decompress_mode
    /\ pc = "done"
    /\ exit_status = 0
    /\ launched = <<"decompress">>

\* C8: at most one external process launched by the run is still running.
C8_OneProcessInFlight == Cardinality(alive) <= 1

\* The compression outlived its poll budget and is still running after the
\* run has ended, three splits having come and gone before it.
C8_Witness ==
    /\ pc = "aborted"
    /\ raised = "TypeError"
    /\ Len(launched) = 4
    /\ alive = {4}

\* C9: called with arrays of equal extent, replace_bad_col returns good.
C9_EqualExtentReturnsGood ==
    (rb_out # NotCalled /\ Len(rb_bad) = Len(rb_good)) =>
        /\ rb_out.raised = "none"
        /\ rb_out.value = rb_good
        /\ Len(rb_out.value) = Len(rb_good)

\* A call with two different arrays of MaxLen entries.
C9_Witness ==
    /\ rb_out # NotCalled
    /\ Len(rb_bad) = MaxLen
    /\ Len(rb_good) = MaxLen
    /\ rb_bad # rb_good
    /\ rb_out.value = rb_good

\* C10: called with bad one entry longer than good, replace_bad_col returns
\* an array as long as bad whose first len(good) entries are good and whose
\* last entry is bad's last.
C10_SurplusOneKeepsLast ==
    (rb_out # NotCalled /\ Len(rb_bad) = Len(rb_good) + 1) =>
        /\ rb_out.raised = "none"
        /\ Len(rb_out.value) = Len(rb_bad)
        /\ SubSeq(rb_out.value, 1, Len(rb_good)) = rb_good
        /\ Last(rb_out.value) = Last(rb_bad)

\* C11: called with bad one entry shorter than good, replace_bad_col
\* completes without error and returns an array as long as good whose
\* entries are good's, the last one good's last.
C11_DeficitOneExpands ==
    (rb_out # NotCalled /\ Len(rb_bad) = Len(rb_good) - 1) =>
        /\ rb_out.raised = "none"
        /\ Len(rb_out.value) = Len(rb_good)
        /\ rb_out.value = rb_good
        /\ Last(rb_out.value) = Last(rb_good)

\* The shape-mismatch error of lines 86-88.
ShapeMismatch == rb_out.raised = "RuntimeError"

IsNearestLowest(table, f, i) ==
    /\ i \in 0..(Len(table) - 1)
    /\ \A j \in 0..(Len(table) - 1) :
          /\ Abs(table[i + 1] - f) <= Abs(table[j + 1] - f)
          /\ j < i => Abs(table[j + 1] - f) > Abs(table[i + 1] - f)

\* The k-th channel number of a result of n channel numbers.
IndexAt(result, n, k) == IF n = 1 THEN result.val ELSE result.val[k]

\* C13: get_freq_chans returns one channel number per requested frequency,
\* in the order requested (a bare number for one frequency); each is the
\* lowest channel number among those nearest to its frequency, and is what
\* the frequency resolves to when requested alone.
C13_NearestLowestIndependent ==
    fq_out # NotResolved =>
        /\ fq_out.tag = IF Len(fq_freqs) = 1 THEN "int" ELSE "list"
        /\ Len(fq_freqs) # 1 => Len(fq_out.val) = Len(fq_freqs)
        /\ \A k \in 1..Len(fq_freqs) :
              /\ IsNearestLowest(fq_table, fq_freqs[k],
                                 IndexAt(fq_out, Len(fq_freqs), k))
              /\ IndexAt(fq_out, Len(fq_freqs), k)
                    = get_freq_chans(fq_table, <<fq_freqs[k]>>).val

\* Two requests resolved on a table of two channels: 1190 is as far from
\* 1180 as from 1200 and resolves to the first, 1425 to the second.
C13_Witness ==
    /\ fq_table = <<1180, 1200>>
    /\ fq_freqs = <<1190, 1425>>
    /\ fq_out = ChanList(<<0, 1>>)

\* Both guard groups of a column have the channel extent of their
\* reference groups: offsets 1 and 2, and offsets 63 and 62, of each block.
EqualGuardExtents(col) ==
    /\ NChan(ColSlice(col, 1)) = NChan(ColSlice(col, 2))
    /\ NChan(ColSlice(col, BlockSize - 1)) = NChan(ColSlice(col, BlockSize - 2))

\* C14: when both guard groups of the reference FLAG column have the
\* channel extent of their reference groups, the comparison made after
\* apply_flags has written the repaired column back finds the repaired
\* dataset's FLAG equal to the reference dataset's FLAG.
C14_RepairedEqualsReference ==
    (Len(same_flags) = 2 /\ EqualGuardExtents(disk.flags.FLAG)) => same_flags[2]

\* The arrays passed to replace_bad_col hold, after the call, the values
\* they held before it.
InputsUntouched ==
    /\ rb_out.bad = rb_bad
    /\ rb_out.good = rb_good

\* C16: in each of the three accepted cases (equal extents, bad one
\* longer, bad one shorter) replace_bad_col returns an output, and the
\* arrays passed as bad and good then hold the values they held before the
\* call.
C16_OutputAndInputsUntouched ==
    (rb_out # NotCalled /\ Abs(Len(rb_bad) - Len(rb_good)) <= 1) =>
        /\ rb_out.raised = "none"
        /\ InputsUntouched

\* The read-write handles open on a dataset.
Writers(path) == {h \in handles : h.path = path /\ ~h.readonly}

C17_SkipOnlyFirstWindow ==
    [][~decompress_mode =>
          /\ pc = "main" =>
                LET lo == find_nearest(msfreqs', Window1180[1])
                    hi == find_nearest(msfreqs', Window1180[2])
                IN  IF lo = 0 /\ hi = 0
                    THEN /\ pc' = "window_1400"
                         /\ launched' = launched
                         /\ raised' = "none"
                    ELSE /\ launched' = <<"split_1180">>
                         /\ dppp_process'.startchan = lo
                         /\ dppp_process'.nchan = hi - lo
          /\ pc = "window_1400" =>
                /\ launched' = Append(launched, "split_1400")
                /\ pc' = "execute_dppp"
          /\ (/\ pc = "check_return_code"
              /\ dppp_process.kind = "split_1400"
              /\ pc' # "aborted") => pc' = "upper"
          /\ pc = "upper" =>
                /\ launched' = Append(launched, "split_upper")
                /\ Len(launched) >= 1
                /\ Last(launched) = "split_1400"
                /\ dppp_process'.startchan = UpperChan0
                /\ dppp_process'.nchan = 0]_vars

\* The first split was skipped; the 1400-1425 MHz split and then the
\* upper-band split were launched, the latter with start 12288 and count 0.
C17_Witness ==
    /\ ~decompress_mode
    /\ launched = <<"split_1400", "split_upper">>
    /\ pc = "execute_dppp"
    /\ dppp_process.startchan = UpperChan0
    /\ dppp_process.nchan = 0

\* C18: a split launched for a frequency window (1180-1200 or 1400-1425
\* MHz) is given a channel count msin.nchan of at least 1.
C18_WindowCountPositive ==
    dppp_process.kind \in {"split_1180", "split_1400"} => dppp_process.nchan >= 1

\* C19: main goes on from a step to the next one, or to its successful
\* end, only when the step's external process has exited with code 0.
C19_OnlyZeroContinues ==
    [][(pc = "check_return_code" /\ pc' # "aborted") =>
          /\ dppp_process.status = "exited"
          /\ dppp_process.returncode = 0]_vars

\* C20: when execute_dppp has handed a value back to its caller, the
\* process it launched is no longer running; and once the run has ended no
\* process it launched is running.
C20_NoProcessLeftRunning ==
    /\ pc = "check_return_code" => dppp_process.status = "exited" /\ alive = {}
    /\ pc \in {"done", "aborted"} => alive = {}

====
